---- MODULE Spec2Model ----
(***************************************************************************)
(* Model of Assets/Scripts/ScenePrinter.js: the Lens Studio scene          *)
(* hierarchy printer.  The scene (root objects, children, components) is   *)
(* owned by the host; the script walks it recursively and print()s one     *)
(* line per SceneObject to the Logger.  Strings are TLA+ strings and are   *)
(* built with \o exactly as the script concatenates them.  The recursion   *)
(* of printObjectRecursive is an explicit stack of frames.                 *)
(***************************************************************************)
EXTENDS Integers, Sequences, FiniteSets, TLC

VARIABLES
    scene,              \* global.scene: [roots, children, name, comps]
    printOnStart,       \* script.printOnStart (@input bool)
    startFired,         \* the host has delivered OnStartEvent
    calls,              \* calls of script.printHierarchy made by other scripts
    pc,                 \* position of the running handler ("idle" when none)
    i,                  \* printSceneHierarchy: loop variable i
    rootObjectsCount,   \* printSceneHierarchy: rootObjectsCount
    stack,              \* printObjectRecursive activations, innermost last
    log                 \* the Logger: every line passed to print(), in order

vars == <<scene, printOnStart, startFired, calls, pc, i, rootObjectsCount, stack, log>>

-----------------------------------------------------------------------------
(* Bounds *)

\* calls of script.printHierarchy by other scripts in one lens session
MaxCalls == 1

\* depth of printObjectRecursive activations the engine's call stack holds
\* before it raises RangeError; every forest of Shapes is shallower
StackLimit == 4

-----------------------------------------------------------------------------
(* JavaScript values *)

Undefined == [type |-> "undefined"]
Null      == [type |-> "null"]
Str(s)    == [type |-> "string", value |-> s]
Array(a)  == [type |-> "array", items |-> a]

\* truthiness of a value, as in  if (component.tweenType)
JsToBoolean(v) ==
    CASE v.type = "undefined" -> FALSE
      [] v.type = "null"      -> FALSE
      [] v.type = "string"    -> v.value # ""
      [] OTHER                -> TRUE

\* string conversion of a value inside a template literal ${...}
JsToString(v) ==
    CASE v.type = "undefined" -> "undefined"
      [] v.type = "null"      -> "null"
      [] OTHER                -> v.value

\* a component object; hasGetTypeName is whether component.getTypeName exists
Component(has, typeName, tweenType, tweenName) ==
    [type |-> "object", hasGetTypeName |-> has, typeName |-> typeName,
     tweenType |-> tweenType, tweenName |-> tweenName]

-----------------------------------------------------------------------------
(* Scenes the host can hand to the script *)

NodeIds == 1..3

Names == <<"Lighting", "Envmap", "Intro Cta">>

NoChildren == [n \in NodeIds |-> <<>>]

Shape(roots, children) == [roots |-> roots, children |-> children]

Shapes ==
    { Shape(<<>>, NoChildren),
      Shape(<<1>>, NoChildren),
      Shape(<<1>>, [NoChildren EXCEPT ![1] = <<2, 3>>]),
      Shape(<<1>>, [NoChildren EXCEPT ![1] = <<3, 2>>]),
      Shape(<<1>>, [NoChildren EXCEPT ![1] = <<2>>, ![2] = <<3>>]),
      Shape(<<1, 3>>, [NoChildren EXCEPT ![1] = <<2>>]),
      Shape(<<3, 1>>, [NoChildren EXCEPT ![1] = <<2>>]),
      \* not forests: an object that is its own descendant
      Shape(<<1>>, [NoChildren EXCEPT ![1] = <<1>>]),
      Shape(<<1, 2>>, [NoChildren EXCEPT ![2] = <<3>>, ![3] = <<2>>]) }

Camera          == Component(TRUE, "Component.Camera", Undefined, Undefined)
ScreenTransform == Component(TRUE, "Component.ScreenTransform", Undefined, Undefined)
TweenFadeIn     == Component(TRUE, "Component.ScriptComponent", Str("alpha"), Str("fadeIn"))
TweenTypeOnly   == Component(TRUE, "Component.ScriptComponent", Str("alpha"), Undefined)
TweenNameOnly   == Component(TRUE, "Component.ScriptComponent", Undefined, Str("fadeOut"))
TweenTypeEmpty  == Component(TRUE, "Component.ScriptComponent", Str(""), Str("fadeOut"))
NoTypeName      == Component(FALSE, "", Undefined, Undefined)

\* what object.getComponents("Component") can return
ComponentLists ==
    { Null,
      Array(<<>>),
      Array(<<Camera>>),
      Array(<<ScreenTransform, TweenFadeIn>>),
      Array(<<TweenTypeOnly, TweenNameOnly>>),
      Array(<<TweenTypeEmpty, Null, Camera>>),
      Array(<<NoTypeName>>) }

Range(s) == { s[k] : k \in 1..Len(s) }

\* objects of a shape: the roots and everything below them
RECURSIVE ReachFrom(_, _, _)
ReachFrom(children, seen, frontier) ==
    IF frontier = {} THEN seen
    ELSE ReachFrom(children, seen \cup frontier,
                   UNION { Range(children[n]) : n \in frontier } \ (seen \cup frontier))

Objects(sh) == ReachFrom(sh.children, {}, Range(sh.roots))

\* objects outside the scene carry nothing
Scenes ==
    UNION { { [roots |-> sh.roots, children |-> sh.children, name |-> Names, comps |-> c] :
                c \in { f \in [NodeIds -> ComponentLists] :
                          \A n \in NodeIds \ Objects(sh) : f[n] = Array(<<>>) } } :
            sh \in Shapes }

-----------------------------------------------------------------------------
(* Scene accessors *)

getRootObjectsCount == Len(scene.roots)
getRootObject(k)    == scene.roots[k + 1]
getChildrenCount(o) == Len(scene.children[o])
getChild(o, k)      == scene.children[o][k + 1]
getComponents(o)    == scene.comps[o]

-----------------------------------------------------------------------------
(* printObjectRecursive: the strings it builds *)

StartMarker == "--- Scene Hierarchy Start ---"
EndMarker   == "--- Scene Hierarchy End ---"
FoundTween  == "Found tween component"

\* variant of Indentation: one space per level
RECURSIVE Indentation_OneSpace(_)
Indentation_OneSpace(depth) ==
    IF depth = 0 THEN "" ELSE Indentation_OneSpace(depth - 1) \o " "

\* for (j = 0; j < depth; j++) indentation += "  "
RECURSIVE Indentation(_)
Indentation(depth) ==
    IF depth = 0 THEN "" ELSE Indentation(depth - 1) \o "  "

\* Array.prototype.join
RECURSIVE Join(_, _)
Join(strs, sep) ==
    IF Len(strs) = 0 THEN ""
    ELSE IF Len(strs) = 1 THEN strs[1]
    ELSE strs[1] \o sep \o Join(Tail(strs), sep)

\* the template literal of the tween branch
TweenInfo(component) ==
    component.typeName \o "-TweenScript (type:" \o JsToString(component.tweenType)
        \o ", name:" \o JsToString(component.tweenName) \o ")"

\* if (component && component.getTypeName)
HasTypeName(component) ==
    component.type = "object" /\ component.hasGetTypeName

\* variant of IsTween: the tween branch also requires a tweenName
IsTween_NeedsName(component) ==
    JsToBoolean(component.tweenType) /\ JsToBoolean(component.tweenName)

\* if (component.tweenType)
IsTween(component) == JsToBoolean(component.tweenType)

\* what the loop body pushes for one component
ComponentName(component) ==
    IF IsTween(component) THEN TweenInfo(component) ELSE component.typeName

\* componentNames after the loop over allComponents
RECURSIVE ComponentNames(_)
ComponentNames(items) ==
    IF Len(items) = 0 THEN <<>>
    ELSE LET component == Head(items) IN
         (IF HasTypeName(component) THEN <<ComponentName(component)>> ELSE <<>>)
             \o ComponentNames(Tail(items))

\* the lines print('Found tween component') emits during the loop
RECURSIVE TweenPrints(_)
TweenPrints(items) ==
    IF Len(items) = 0 THEN <<>>
    ELSE LET component == Head(items) IN
         (IF HasTypeName(component) /\ IsTween(component) THEN <<FoundTween>> ELSE <<>>)
             \o TweenPrints(Tail(items))

\* if (allComponents && allComponents.length > 0)
HasComponents(allComponents) ==
    allComponents.type = "array" /\ Len(allComponents.items) > 0

\* variant of ComponentsInfo: no parentheses when every entry was skipped
ComponentsInfo_SkipEmpty(allComponents) ==
    IF HasComponents(allComponents) /\ ComponentNames(allComponents.items) # <<>>
    THEN " (" \o Join(ComponentNames(allComponents.items), ", ") \o ")"
    ELSE ""

ComponentsInfo(allComponents) ==
    IF HasComponents(allComponents)
    THEN " (" \o Join(ComponentNames(allComponents.items), ", ") \o ")"
    ELSE ""

\* the argument of print(indentation + "|-- " + object.name + componentsInfo)
ObjectLine(object, depth) ==
    Indentation(depth) \o "|-- " \o scene.name[object] \o ComponentsInfo(getComponents(object))

\* everything one activation prints before it descends
ObjectPrints(object, depth) ==
    (IF HasComponents(getComponents(object)) THEN TweenPrints(getComponents(object).items) ELSE <<>>)
        \o <<ObjectLine(object, depth)>>

-----------------------------------------------------------------------------
(* The script as a state machine *)

Frame(object, depth) == [object |-> object, depth |-> depth, i |-> 0, childrenCount |-> 0]

Top == stack[Len(stack)]

Init ==
    /\ scene \in Scenes
    /\ printOnStart \in BOOLEAN
    /\ startFired = FALSE
    /\ calls = 0
    /\ pc = "idle"
    /\ i = 0
    /\ rootObjectsCount = 0
    /\ stack = <<>>
    /\ log = <<>>

\* printSceneHierarchy up to the loop: the start marker and the root count
EnterPrintSceneHierarchy ==
    /\ log' = Append(log, StartMarker)
    /\ rootObjectsCount' = getRootObjectsCount
    /\ i' = 0
    /\ pc' = "rootLoop"
    /\ UNCHANGED <<scene, printOnStart, stack>>

\* variant of OnStart: the handler does not look at printOnStart
OnStart_Always ==
    /\ pc = "idle"
    /\ ~startFired
    /\ startFired' = TRUE
    /\ EnterPrintSceneHierarchy
    /\ UNCHANGED calls

\* the handler bound to OnStartEvent
OnStart ==
    /\ pc = "idle"
    /\ ~startFired
    /\ startFired' = TRUE
    /\ IF printOnStart
       THEN EnterPrintSceneHierarchy
       ELSE UNCHANGED <<scene, printOnStart, pc, i, rootObjectsCount, stack, log>>
    /\ UNCHANGED calls

\* another script calls script.printHierarchy()
CallPrintHierarchy ==
    /\ pc = "idle"
    /\ calls < MaxCalls
    /\ calls' = calls + 1
    /\ EnterPrintSceneHierarchy
    /\ UNCHANGED startFired

\* variant of RootLoopCall: the starting depth is kept across invocations
RootLoopCall_DepthFromCalls ==
    /\ pc = "rootLoop"
    /\ i < rootObjectsCount
    /\ stack' = <<Frame(getRootObject(i), calls)>>
    /\ pc' = "visit"
    /\ UNCHANGED <<scene, printOnStart, startFired, calls, i, rootObjectsCount, log>>

\* loop of printSceneHierarchy: call printObjectRecursive(rootObject, 0)
RootLoopCall ==
    /\ pc = "rootLoop"
    /\ i < rootObjectsCount
    /\ stack' = <<Frame(getRootObject(i), 0)>>
    /\ pc' = "visit"
    /\ UNCHANGED <<scene, printOnStart, startFired, calls, i, rootObjectsCount, log>>

\* variant of RootLoopExit: the end marker is printed only after some root
RootLoopExit_SilentWhenEmpty ==
    /\ pc = "rootLoop"
    /\ ~(i < rootObjectsCount)
    /\ log' = IF rootObjectsCount > 0 THEN Append(log, EndMarker) ELSE log
    /\ pc' = "idle"
    /\ i' = 0
    /\ rootObjectsCount' = 0
    /\ UNCHANGED <<scene, printOnStart, startFired, calls, stack>>

\* loop of printSceneHierarchy is over: the end marker, and return
RootLoopExit ==
    /\ pc = "rootLoop"
    /\ ~(i < rootObjectsCount)
    /\ log' = Append(log, EndMarker)
    /\ pc' = "idle"
    /\ i' = 0
    /\ rootObjectsCount' = 0
    /\ UNCHANGED <<scene, printOnStart, startFired, calls, stack>>

\* variant of Visit: the object's component list is emptied once printed
Visit_ClearsComponents ==
    /\ pc = "visit"
    /\ log' = log \o ObjectPrints(Top.object, Top.depth)
    /\ stack' = [stack EXCEPT ![Len(stack)] =
                    [@ EXCEPT !.i = 0, !.childrenCount = getChildrenCount(Top.object)]]
    /\ pc' = "childLoop"
    /\ scene' = [scene EXCEPT !.comps[Top.object] = Array(<<>>)]
    /\ UNCHANGED <<printOnStart, startFired, calls, i, rootObjectsCount>>

\* printObjectRecursive from its entry to the read of getChildrenCount
Visit ==
    /\ pc = "visit"
    /\ log' = log \o ObjectPrints(Top.object, Top.depth)
    /\ stack' = [stack EXCEPT ![Len(stack)] =
                    [@ EXCEPT !.i = 0, !.childrenCount = getChildrenCount(Top.object)]]
    /\ pc' = "childLoop"
    /\ UNCHANGED <<scene, printOnStart, startFired, calls, i, rootObjectsCount>>

\* variant of ChildLoopCall: the children are taken last to first
ChildLoopCall_Reversed ==
    /\ pc = "childLoop"
    /\ Top.i < Top.childrenCount
    /\ Len(stack) < StackLimit
    /\ stack' = Append(stack, Frame(getChild(Top.object, Top.childrenCount - 1 - Top.i),
                                    Top.depth + 1))
    /\ pc' = "visit"
    /\ UNCHANGED <<scene, printOnStart, startFired, calls, i, rootObjectsCount, log>>

\* variant of ChildLoopCall: a child that is already being printed is skipped
ChildLoopCall_Guarded ==
    /\ pc = "childLoop"
    /\ Top.i < Top.childrenCount
    /\ Len(stack) < StackLimit
    /\ IF \E k \in DOMAIN stack : stack[k].object = getChild(Top.object, Top.i)
       THEN /\ stack' = [stack EXCEPT ![Len(stack)].i = @ + 1]
            /\ pc' = "childLoop"
       ELSE /\ stack' = Append(stack, Frame(getChild(Top.object, Top.i), Top.depth + 1))
            /\ pc' = "visit"
    /\ UNCHANGED <<scene, printOnStart, startFired, calls, i, rootObjectsCount, log>>

\* loop over the children: call printObjectRecursive(child, depth + 1)
ChildLoopCall ==
    /\ pc = "childLoop"
    /\ Top.i < Top.childrenCount
    /\ Len(stack) < StackLimit
    /\ stack' = Append(stack, Frame(getChild(Top.object, Top.i), Top.depth + 1))
    /\ pc' = "visit"
    /\ UNCHANGED <<scene, printOnStart, startFired, calls, i, rootObjectsCount, log>>

\* the call does not fit the engine's stack: RangeError unwinds every
\* activation, printSceneHierarchy included, and the handler ends
StackOverflow ==
    /\ pc = "childLoop"
    /\ Top.i < Top.childrenCount
    /\ ~(Len(stack) < StackLimit)
    /\ stack' = <<>>
    /\ pc' = "idle"
    /\ i' = 0
    /\ rootObjectsCount' = 0
    /\ UNCHANGED <<scene, printOnStart, startFired, calls, log>>

\* loop over the children is over: return to the caller, whose loop advances
ChildLoopReturn ==
    /\ pc = "childLoop"
    /\ ~(Top.i < Top.childrenCount)
    /\ IF Len(stack) = 1
       THEN /\ stack' = <<>>
            /\ i' = i + 1
            /\ pc' = "rootLoop"
       ELSE /\ stack' = [SubSeq(stack, 1, Len(stack) - 1) EXCEPT ![Len(stack) - 1].i = @ + 1]
            /\ i' = i
            /\ pc' = "childLoop"
    /\ UNCHANGED <<scene, printOnStart, startFired, calls, rootObjectsCount, log>>

\* the steps of a running handler
Step ==
    \/ RootLoopCall
    \/ RootLoopExit
    \/ Visit
    \/ ChildLoopCall
    \/ StackOverflow
    \/ ChildLoopReturn

Next ==
    \/ OnStart
    \/ CallPrintHierarchy
    \/ RootLoopCall
    \/ RootLoopExit
    \/ Visit
    \/ ChildLoopCall
    \/ StackOverflow
    \/ ChildLoopReturn

Spec == Init /\ [][Next]_vars

\* the script runs synchronously on one thread: a handler that has started
\* keeps executing until it returns or throws
FairSpec == Spec /\ WF_vars(Step)

-----------------------------------------------------------------------------
(* Vocabulary of the properties: the scene as a graph, the log as text *)

SceneShape == Shape(scene.roots, scene.children)

SceneObjects == Objects(SceneShape)

\* proper descendants of o (o itself is among them exactly when o lies on a cycle)
DescendantsIn(sh, o) == ReachFrom(sh.children, {}, Range(sh.children[o]))

Descendants(o) == DescendantsIn(SceneShape, o)

Subtree(o) == {o} \cup Descendants(o)

CyclicShape(sh) == \E o \in Objects(sh) : o \in DescendantsIn(sh, o)

\* number of places an object is listed at, as a root or as a child
Occurrences(sh, o) ==
    Cardinality({ k \in DOMAIN sh.roots : sh.roots[k] = o })
    + Cardinality({ <<p, k>> \in NodeIds \X (1..Cardinality(NodeIds)) :
                      /\ p \in Objects(sh)
                      /\ k \in DOMAIN sh.children[p]
                      /\ sh.children[p][k] = o })

ForestShape(sh) == ~CyclicShape(sh) /\ \A o \in Objects(sh) : Occurrences(sh, o) = 1

ForestShapes == { sh \in Shapes : ForestShape(sh) }

CyclicShapes == { sh \in Shapes : CyclicShape(sh) }

\* the scene is a finite forest: no cycle, every object listed once
IsForest == SceneShape \in ForestShapes

\* some object of the scene is its own descendant
Cyclic == SceneShape \in CyclicShapes

\* depth of an object of a forest: the number of its proper ancestors
Depth(o) == Cardinality({ a \in SceneObjects : o \in Descendants(a) })

\* the lists whose order the traversal has to follow
SiblingLists == {scene.roots} \cup { scene.children[o] : o \in SceneObjects }

\* invocations of printSceneHierarchy made so far
Invocations == calls + (IF startFired /\ printOnStart THEN 1 ELSE 0)

StartsWith(s, p) == Len(s) >= Len(p) /\ SubSeq(s, 1, Len(p)) = p

RECURSIVE StripIndent(_)
StripIndent(l) ==
    IF Len(l) > 0 /\ Head(l) = " " THEN StripIndent(Tail(l)) ELSE l

LeadingSpaces(l) == Len(l) - Len(StripIndent(l))

\* a line that is neither a marker nor the tween notice
IsObjectLine(l) == l \notin {StartMarker, EndMarker, FoundTween}

\* what follows "|-- <name of o>" on the line
Suffix(l, o) ==
    LET body == StripIndent(l)
        head == "|-- " \o scene.name[o]
    IN  SubSeq(body, Len(head) + 1, Len(body))

\* l is the line of object o: indentation, "|-- ", the name, then nothing or " (..."
IsLineOf(l, o) ==
    /\ StartsWith(StripIndent(l), "|-- " \o scene.name[o])
    /\ Suffix(l, o) = "" \/ StartsWith(Suffix(l, o), " (")

Count(seq, x) == Cardinality({ k \in DOMAIN seq : seq[k] = x })

StartIndices == { k \in DOMAIN log : log[k] = StartMarker }

\* the lines from the start marker at k up to the next start marker
OutputAt(k) ==
    LET later == { m \in StartIndices : m > k }
        last  == IF later = {} THEN Len(log)
                 ELSE (CHOOSE m \in later : \A n \in later : m <= n) - 1
    IN  SubSeq(log, k, last)

\* outputs of the invocations that have ended; an output is complete in the
\* log from the moment its invocation ends, so the laws about whole outputs
\* are stated of the states in which no handler is running
EndedOutputs ==
    { OutputAt(k) : k \in { m \in StartIndices :
                              pc = "idle" \/ \E n \in StartIndices : n > m } }

ObjectLines(out) == SelectSeq(out, IsObjectLine)

\* the line of o in an output that lists every object once
LineOf(out, o) == CHOOSE l \in Range(ObjectLines(out)) : IsLineOf(l, o)

Position(out, o) ==
    CHOOSE k \in DOMAIN ObjectLines(out) : IsLineOf(ObjectLines(out)[k], o)

-----------------------------------------------------------------------------
(* C1: one line per object *)

\* C1: over a forest, an invocation that has ended has emitted exactly
\* 2 + (number of objects) lines, whatever components the objects carry.
C1_LineCount ==
    pc = "idle" /\ IsForest => \A out \in EndedOutputs : Len(out) = 2 + Cardinality(SceneObjects)

-----------------------------------------------------------------------------
(* C6: marker bracketing *)

\* C6: over a forest, every invocation emits the start marker first and the
\* end marker last, each once, with all its other lines between them; with
\* zero roots its output is the two markers and nothing else.
C6_MarkerBracketing ==
    IsForest =>
        /\ Count(log, StartMarker) = Invocations
        /\ Count(log, EndMarker) = (IF pc = "idle" THEN Invocations ELSE Invocations - 1)
        /\ pc = "idle" => \A out \in EndedOutputs :
              /\ out[1] = StartMarker
              /\ out[Len(out)] = EndMarker
              /\ Count(out, StartMarker) = 1
              /\ Count(out, EndMarker) = 1
              /\ scene.roots = <<>> => out = <<StartMarker, EndMarker>>
        /\ log # <<>> => log[1] = StartMarker
        /\ pc # "idle" => log[Len(log)] # EndMarker

C6_Witness ==
    /\ IsForest
    /\ pc = "idle"
    /\ Invocations = 2
    /\ Cardinality(SceneObjects) = 3
    /\ Len(log) > 8

-----------------------------------------------------------------------------
(* C5: depth-indentation law *)

\* C5: over a forest, every line that is not a marker or a tween notice is
\* the line of an object o and starts with exactly 2 * Depth(o) spaces
\* followed by "|-- ".
C5_DepthIndentation ==
    IsForest =>
        \A k \in DOMAIN log :
            IsObjectLine(log[k]) =>
                \E o \in SceneObjects :
                    LET d == Depth(o) IN
                    /\ IsLineOf(log[k], o)
                    /\ LeadingSpaces(log[k]) = 2 * d
                    /\ SubSeq(log[k], 2 * d + 1, 2 * d + 4) = "|-- "

C5_Witness ==
    /\ IsForest
    /\ pc = "idle"
    /\ \E k \in DOMAIN log : IsObjectLine(log[k]) /\ LeadingSpaces(log[k]) = 4
    /\ \E k \in DOMAIN log : IsObjectLine(log[k]) /\ LeadingSpaces(log[k]) = 0

-----------------------------------------------------------------------------
(* C4: pre-order law *)

\* C4: over a forest, the object lines of an invocation that has ended list
\* every object exactly once, an object before each of its descendants, and
\* the whole subtree of an earlier sibling (or root) before the subtree of a
\* later one.
C4_PreOrder ==
    pc = "idle" /\ IsForest =>
        \A out \in EndedOutputs :
            /\ Len(ObjectLines(out)) = Cardinality(SceneObjects)
            /\ \A o \in SceneObjects :
                  \E k \in DOMAIN ObjectLines(out) : IsLineOf(ObjectLines(out)[k], o)
            /\ \A a \in SceneObjects : \A b \in Descendants(a) :
                  Position(out, a) < Position(out, b)
            /\ \A sibs \in SiblingLists : \A m, n \in DOMAIN sibs :
                  m < n => \A x \in Subtree(sibs[m]) : \A y \in Subtree(sibs[n]) :
                              Position(out, x) < Position(out, y)

C4_Witness ==
    /\ IsForest
    /\ pc = "idle"
    /\ scene.roots = <<3, 1>>
    /\ scene.children[1] = <<2>>
    /\ EndedOutputs # {}

-----------------------------------------------------------------------------
(* C2: tween formatting law *)

\* the entries of o's component list that are objects with a type name
Components(o) ==
    IF getComponents(o).type = "array"
    THEN SelectSeq(getComponents(o).items,
                   LAMBDA c : c.type = "object" /\ c.hasGetTypeName)
    ELSE <<>>

\* d1 ", " d2 ", " ... dn  for n >= 1
RECURSIVE Listed(_)
Listed(ds) ==
    IF Len(ds) = 1 THEN ds[1]
    ELSE Listed(SubSeq(ds, 1, Len(ds) - 1)) \o ", " \o ds[Len(ds)]

Exposes(v) == v.type = "string"

Shown(v) == IF v.type = "string" THEN v.value ELSE v.type

TweenForm(c) ==
    c.typeName \o "-TweenScript (type:" \o Shown(c.tweenType)
        \o ", name:" \o Shown(c.tweenName) \o ")"

\* the rendering the claim states: the tween form needs both attributes
ClaimedDescriptor(c) ==
    IF Exposes(c.tweenType) /\ Exposes(c.tweenName) THEN TweenForm(c) ELSE c.typeName

\* the rendering that holds: the tween form needs a non-empty tweenType only
AmendedDescriptor(c) ==
    IF Exposes(c.tweenType) /\ c.tweenType.value # "" THEN TweenForm(c) ELSE c.typeName

\* C2 as stated: every component with a type name is rendered in the tween
\* form if it exposes both tweenType and tweenName, and as its type name
\* otherwise.
C2_TweenLawAsStated ==
    pc = "idle" /\ IsForest =>
        \A out \in EndedOutputs : \A o \in SceneObjects :
            Components(o) # <<>> =>
                Suffix(LineOf(out, o), o) =
                    " (" \o Listed([k \in DOMAIN Components(o) |->
                                       ClaimedDescriptor(Components(o)[k])]) \o ")"

\* C2 amended: every component with a type name is rendered in the tween form
\* exactly when its tweenType is a non-empty string, whether or not it has a
\* tweenName (an absent tweenName reads "undefined"), and as its type name
\* otherwise.
C2_TweenLaw ==
    pc = "idle" /\ IsForest =>
        \A out \in EndedOutputs : \A o \in SceneObjects :
            Components(o) # <<>> =>
                Suffix(LineOf(out, o), o) =
                    " (" \o Listed([k \in DOMAIN Components(o) |->
                                       AmendedDescriptor(Components(o)[k])]) \o ")"

C2_Witness ==
    /\ IsForest
    /\ pc = "idle"
    /\ \E out \in EndedOutputs : \E o, q, r \in SceneObjects :
          /\ getComponents(o) = Array(<<TweenTypeOnly, TweenNameOnly>>)
          /\ Suffix(LineOf(out, o), o) =
                " (Component.ScriptComponent-TweenScript (type:alpha, name:undefined), Component.ScriptComponent)"
          /\ getComponents(q) = Array(<<ScreenTransform, TweenFadeIn>>)
          /\ getComponents(r) = Array(<<TweenTypeEmpty, Null, Camera>>)

-----------------------------------------------------------------------------
(* C3: component suffix law *)

\* C3 as stated: an empty or absent list gives no suffix; a list of N >= 1
\* entries gives " (" + N descriptors joined by ", " + ")", none dropped, and
\* never " ()".
C3_SuffixLawAsStated ==
    pc = "idle" /\ IsForest =>
        \A out \in EndedOutputs : \A o \in SceneObjects :
            LET list  == getComponents(o)
                descs == [k \in DOMAIN Components(o) |-> ComponentName(Components(o)[k])]
            IN  IF list.type # "array" \/ list.items = <<>>
                THEN Suffix(LineOf(out, o), o) = ""
                ELSE /\ Len(descs) = Len(list.items)
                     /\ Suffix(LineOf(out, o), o) # " ()"
                     /\ Suffix(LineOf(out, o), o) = " (" \o Listed(descs) \o ")"

\* C3 amended: an empty or absent list gives no suffix; a list of N >= 1
\* entries gives " (" + the descriptors, joined by ", " and in list order, of
\* those entries that are objects with a type name + ")"; the other entries
\* are dropped, and when all are dropped the suffix is " ()".
C3_SuffixLaw ==
    pc = "idle" /\ IsForest =>
        \A out \in EndedOutputs : \A o \in SceneObjects :
            LET list  == getComponents(o)
                descs == [k \in DOMAIN Components(o) |-> ComponentName(Components(o)[k])]
            IN  IF list.type # "array" \/ list.items = <<>>
                THEN Suffix(LineOf(out, o), o) = ""
                ELSE Suffix(LineOf(out, o), o) =
                        (IF descs = <<>> THEN " ()" ELSE " (" \o Listed(descs) \o ")")

C3_Witness ==
    /\ IsForest
    /\ pc = "idle"
    /\ \E out \in EndedOutputs : \E o, q, r \in SceneObjects :
          /\ getComponents(o) = Array(<<NoTypeName>>)
          /\ LineOf(out, o) = Indentation(Depth(o)) \o "|-- " \o scene.name[o] \o " ()"
          /\ getComponents(q) = Null
          /\ getComponents(r) = Array(<<TweenTypeEmpty, Null, Camera>>)

-----------------------------------------------------------------------------
(* C7: termination *)

\* C7: over a forest, a running invocation eventually emits the end marker
\* and returns; over a scene with an object that is its own descendant, the
\* end marker is never emitted.
C7_Termination ==
    /\ [](IsForest /\ pc # "idle"
            => <>(pc = "idle" /\ log # <<>> /\ log[Len(log)] = EndMarker))
    /\ [](Cyclic => Count(log, EndMarker) = 0)

C7_Witness ==
    /\ IsForest
    /\ pc = "idle"
    /\ scene.children[2] = <<3>>
    /\ Invocations = 1
    /\ log[Len(log)] = EndMarker

\* the recursion over a cyclic scene ends in the engine's RangeError
C7_WitnessCyclic ==
    /\ Cyclic
    /\ pc = "idle"
    /\ Invocations = 1
    /\ Len(log) > StackLimit

-----------------------------------------------------------------------------
(* C8: idempotence *)

\* C8: over a forest, the invocations that have ended emitted the same
\* sequence of lines.
C8_Idempotence ==
    pc = "idle" /\ IsForest => \A a, b \in EndedOutputs : a = b

C8_Witness ==
    /\ IsForest
    /\ pc = "idle"
    /\ Invocations = 2
    /\ Cardinality(StartIndices) = 2
    /\ Cardinality(SceneObjects) = 3
    /\ \E o \in SceneObjects : getComponents(o) = Array(<<ScreenTransform, TweenFadeIn>>)

-----------------------------------------------------------------------------
(* C9: start trigger *)

\* C9: when OnStartEvent fires, printSceneHierarchy starts exactly when
\* printOnStart is true; the Logger receives a first line of an output only
\* from that start or from a call of script.printHierarchy, which starts the
\* same routine; with printOnStart false and no call made, the log is empty.
C9_StartTrigger ==
    /\ [][ (~startFired /\ startFired')
             => IF printOnStart
                THEN log' = Append(log, StartMarker) /\ pc' = "rootLoop"
                ELSE log' = log /\ pc' = "idle" /\ stack' = <<>> ]_vars
    /\ [][ calls' # calls
             => /\ calls' = calls + 1
                /\ log' = Append(log, StartMarker)
                /\ pc' = "rootLoop" ]_vars
    /\ [][ (pc = "idle" /\ log' # log)
             => (printOnStart /\ ~startFired /\ startFired') \/ calls' = calls + 1 ]_vars
    /\ []( (~printOnStart /\ calls = 0) => log = <<>> )

C9_Witness ==
    /\ ~printOnStart
    /\ startFired
    /\ calls = 1
    /\ pc = "idle"
    /\ scene.roots # <<>>
    /\ log # <<>>
    /\ log[Len(log)] = EndMarker

-----------------------------------------------------------------------------
(* C10: read-only traversal *)

IsPrefix(s, t) == Len(s) <= Len(t) /\ SubSeq(t, 1, Len(s)) = s

\* C10: no step of the script changes the scene (roots, names, child lists,
\* component lists, components) or the printOnStart input; the Logger only
\* grows by appended lines.
C10_ReadOnly ==
    [][ /\ scene' = scene
        /\ printOnStart' = printOnStart
        /\ IsPrefix(log, log') ]_vars

C10_Witness ==
    /\ pc = "idle"
    /\ Invocations = 2
    /\ IsForest
    /\ Cardinality(SceneObjects) = 3
    /\ \E o \in SceneObjects : getComponents(o) = Array(<<ScreenTransform, TweenFadeIn>>)
    /\ log[Len(log)] = EndMarker

====
